---- MODULE Spec2Model ----
(***************************************************************************)
(* A model of the ARRIS S33 scraper (package s33): the parser of the       *)
(* encoded channel tables (parseStatus, parseDownstreamTable,              *)
(* parseUpstreamTable) and the live Status call (auth, getStatus).         *)
(*                                                                         *)
(* Strings are sequences of symbols.  A symbol is one character ("4", "-", *)
(* ".", "^", " "), the three-character record separator "|+|" taken as one *)
(* symbol, or a word of letters taken as one symbol ("QAM256", "Locked",   *)
(* "x"): a word never parses as a number and never holds a separator.      *)
(* A float64 is an exact decimal [m, e] standing for m / 10^e, normalised. *)
(***************************************************************************)
EXTENDS Integers, Sequences, FiniteSets, TLC

VARIABLES
    payload,    \* the statusResponse handed to parseStatus: [down, up]
    result,     \* what parseStatus returned: [err, signal], or NotParsed
    fakeData,   \* s33.fakeData: NoFakeData (nil) or the bytes of a fixture
    pc,         \* where the Status call stands: [x: exchange, ph: phase]
    ctxDone,    \* the call's context is cancelled
    cancelAt,   \* where the call stood when its context was cancelled
    sent,       \* the requests that went out, in order
    rx,         \* per exchange, the response received: [code, body]
    fault,      \* the failure the transport reported: [x, ph, err]
    cookies,    \* auth's cookies, as set on the jar of the client
    hnap,       \* the HNAP_AUTH header computed last: [value, at: the clock read]
    authRet,    \* what auth returned: [cookies, err]
    ret,        \* what Status returned: [signal, err]
    password,   \* *password, the flag
    path,       \* the path handed to probe, "" for none
    file,       \* the file at that path: NoFile or its bytes
    page,       \* the body answered to getID: [code, text, beyond], or NoBytes
    probePc,    \* where probe stands
    examined,   \* b, the bytes probe handed to isS33
    probeFault, \* the call of probe that returned an error
    modem,      \* what probe returned: NoModem (nil) or an s33
    calls,      \* per Status call of several on one instance: its locals
    jars,       \* per cookie jar: the cookies set on it
    table,      \* an HTML table of the status page: [kind, rows of cells]
    scrape,     \* the update function at work on it: [row, ids, stats, state]
    metrics,    \* the label sets and values published from the table
    g,          \* the singleflight group of main: [m: the call under key "get"]
    flight,     \* the calls the group made, in order: [fn, err, wg]
    handlers    \* per /metrics request: [pc, c: its call, resp: the response]

parseVars == <<payload, result>>
callVars == <<fakeData, pc, ctxDone, cancelAt, sent, rx, fault, cookies, hnap, authRet, ret>>
\* what no step of a Status call writes
probeVars == <<path, file, page, probePc, examined, probeFault, modem>>
callsVars == <<calls, jars>>
htmlVars == <<table, scrape, metrics>>
serveVars == <<g, flight, handlers>>
frameVars == <<password, serveVars, probeVars, callsVars, htmlVars>>
vars == <<payload, result, fakeData, pc, ctxDone, cancelAt, sent, rx, fault, cookies, hnap,
          authRet, ret, password, path, file, page, probePc, examined, probeFault, modem,
          calls, jars, table, scrape, metrics, g, flight, handlers>>

-----------------------------------------------------------------------------
(* Strings *)

RowSep == "|+|"
ColSep == "^"
Digits == {"0", "1", "2", "3", "4", "5", "6", "7", "8", "9"}

IsDigit(c) == c \in Digits

DigitVal(c) ==
    CASE c = "0" -> 0 [] c = "1" -> 1 [] c = "2" -> 2 [] c = "3" -> 3
      [] c = "4" -> 4 [] c = "5" -> 5 [] c = "6" -> 6 [] c = "7" -> 7
      [] c = "8" -> 8 [] c = "9" -> 9

\* strings.Split(s, sep) for a one-symbol separator: always at least one piece.
RECURSIVE Split(_, _)
Split(s, sep) ==
    IF \A i \in 1..Len(s) : s[i] # sep
    THEN <<s>>
    ELSE LET i == CHOOSE k \in 1..Len(s) :
                      s[k] = sep /\ \A j \in 1..(k - 1) : s[j] # sep
         IN  <<SubSeq(s, 1, i - 1)>> \o Split(SubSeq(s, i + 1, Len(s)), sep)

\* A mutant of Contains: the text must start with sub (strings.HasPrefix).
HasPrefix(s, sub) == Len(s) >= Len(sub) /\ SubSeq(s, 1, Len(sub)) = sub

\* strings.Contains(s, sub)
Contains(s, sub) ==
    \E i \in 0..(Len(s) - Len(sub)) : SubSeq(s, i + 1, i + Len(sub)) = sub

-----------------------------------------------------------------------------
(* float64 values and strconv.ParseFloat *)

RECURSIVE Normalize(_, _)
Normalize(m, e) ==
    IF e > 0 /\ m % 10 = 0 THEN Normalize(m \div 10, e - 1) ELSE [m |-> m, e |-> e]

Zero == [m |-> 0, e |-> 0]

RECURSIVE DigitsValue(_)
DigitsValue(ds) ==
    IF ds = <<>> THEN 0
    ELSE 10 * DigitsValue(SubSeq(ds, 1, Len(ds) - 1)) + DigitVal(ds[Len(ds)])

\* A mutant of ParseFloat: a failed conversion hands back a sentinel, not zero.
ParseFloatSentinel(s) ==
    LET signed == Len(s) > 0 /\ s[1] \in {"+", "-"}
        body   == IF signed THEN Tail(s) ELSE s
        dots   == {i \in 1..Len(body) : body[i] = "."}
        ok     == /\ \A i \in 1..Len(body) : IsDigit(body[i]) \/ body[i] = "."
                  /\ Cardinality(dots) <= 1
                  /\ \E i \in 1..Len(body) : IsDigit(body[i])
        nfrac  == IF dots = {} THEN 0 ELSE Len(body) - (CHOOSE i \in dots : TRUE)
        mant   == DigitsValue(SelectSeq(body, IsDigit))
        sign   == IF signed /\ s[1] = "-" THEN -1 ELSE 1
    IN  IF ok THEN [f |-> Normalize(sign * mant, nfrac), err |-> FALSE]
        ELSE [f |-> [m |-> -1, e |-> 0], err |-> TRUE]

\* strconv.ParseFloat(s, 64) on decimal text: an optional sign, digits with at
\* most one point and at least one digit.  Anything else is a syntax error,
\* for which ParseFloat returns 0 and the error.  (Exponents, hexadecimal
\* floats, underscores, "Inf" and "NaN" are not among the symbols of a text.)
ParseFloat(s) ==
    LET signed == Len(s) > 0 /\ s[1] \in {"+", "-"}
        body   == IF signed THEN Tail(s) ELSE s
        dots   == {i \in 1..Len(body) : body[i] = "."}
        ok     == /\ \A i \in 1..Len(body) : IsDigit(body[i]) \/ body[i] = "."
                  /\ Cardinality(dots) <= 1
                  /\ \E i \in 1..Len(body) : IsDigit(body[i])
        nfrac  == IF dots = {} THEN 0 ELSE Len(body) - (CHOOSE i \in dots : TRUE)
        mant   == DigitsValue(SelectSeq(body, IsDigit))
        sign   == IF signed /\ s[1] = "-" THEN -1 ELSE 1
    IN  IF ok THEN [f |-> Normalize(sign * mant, nfrac), err |-> FALSE]
        ELSE [f |-> Zero, err |-> TRUE]

\* A mutant of FormatHz: the cell is taken for megahertz.
FormatMHz(col) == col \o <<" ", "M", "H", "z">>

\* fmt.Sprintf("%s Hz", col)
FormatHz(col) == col \o <<" ", "H", "z">>

-----------------------------------------------------------------------------
(* modem.Downstream, modem.Upstream, modem.Signal *)

NoError == "nil"

\* &modem.Downstream{}
NewDownstream ==
    [Modulation |-> <<>>, Frequency |-> <<>>, PowerLevel |-> Zero, SNR |-> Zero,
     Correctable |-> Zero, Uncorrectable |-> Zero]

\* &modem.Upstream{}
NewUpstream ==
    [Status |-> <<>>, Modulation |-> <<>>, Frequency |-> <<>>, PowerLevel |-> Zero]

\* map[modem.Channel]*T{}
EmptyMap == [k \in {} |-> Zero]

\* m[ch] = d
MapSet(m, ch, d) == [k \in (DOMAIN m) \cup {ch} |-> IF k = ch THEN d ELSE m[k]]

\* a nil *modem.Signal
NilSignal == [nil |-> TRUE]

-----------------------------------------------------------------------------
(* parseDownstreamTable *)

\* A mutant of DownstreamCol: power and SNR read from each other's column.
DownstreamColSwapped(st, i, col) ==
    LET f == ParseFloat(col).f
    IN  CASE i = 2 -> [st EXCEPT !.d.Modulation = col]
          [] i = 3 -> [st EXCEPT !.ch = col]
          [] i = 4 -> [st EXCEPT !.d.Frequency = FormatHz(col)]
          [] i = 5 -> [st EXCEPT !.d.SNR = f]
          [] i = 6 -> [st EXCEPT !.d.PowerLevel = f]
          [] i = 7 -> [st EXCEPT !.d.Correctable = f]
          [] i = 8 -> [st EXCEPT !.d.Uncorrectable = f]
          [] OTHER -> st

\* The body of the column loop: the switch on the column index i (from 0).
\* st = [ch, d] are the row's channel and record so far.
DownstreamCol(st, i, col) ==
    LET f == ParseFloat(col).f
    IN  CASE i = 2 -> [st EXCEPT !.d.Modulation = col]
          [] i = 3 -> [st EXCEPT !.ch = col]
          [] i = 4 -> [st EXCEPT !.d.Frequency = FormatHz(col)]
          [] i = 5 -> [st EXCEPT !.d.PowerLevel = f]
          [] i = 6 -> [st EXCEPT !.d.SNR = f]
          [] i = 7 -> [st EXCEPT !.d.Correctable = f]
          [] i = 8 -> [st EXCEPT !.d.Uncorrectable = f]
          [] OTHER -> st

\* for i, col := range cols[:len(cols)-1], from the n-th element on
RECURSIVE DownstreamCols(_, _, _)
DownstreamCols(cols, n, st) ==
    IF n > Len(cols) - 1 THEN st
    ELSE DownstreamCols(cols, n + 1, DownstreamCol(st, n - 1, cols[n]))

\* One turn of the row loop: the row's channel and record.
DownstreamRow(row) ==
    DownstreamCols(Split(row, ColSep), 1, [ch |-> <<>>, d |-> NewDownstream])

\* for _, row := range rows { ...; m[ch] = d }, from the n-th row on
RECURSIVE DownstreamRows(_, _, _)
DownstreamRows(rows, n, m) ==
    IF n > Len(rows) THEN m
    ELSE LET st == DownstreamRow(rows[n])
         IN  DownstreamRows(rows, n + 1, MapSet(m, st.ch, st.d))

parseDownstreamTable(t) ==
    LET rows == Split(t, RowSep)
    IN  IF Len(rows) < 0
        THEN [err |-> "No channels returned", m |-> EmptyMap]
        ELSE [err |-> NoError, m |-> DownstreamRows(rows, 1, EmptyMap)]

-----------------------------------------------------------------------------
(* parseUpstreamTable *)

UpstreamCol(st, i, col) ==
    LET f == ParseFloat(col).f
    IN  CASE i = 1 -> [st EXCEPT !.u.Status = col]
          [] i = 2 -> [st EXCEPT !.u.Modulation = col]
          [] i = 3 -> [st EXCEPT !.ch = col]
          [] i = 5 -> [st EXCEPT !.u.Frequency = FormatHz(col)]
          [] i = 6 -> [st EXCEPT !.u.PowerLevel = f]
          [] OTHER -> st

RECURSIVE UpstreamCols(_, _, _)
UpstreamCols(cols, n, st) ==
    IF n > Len(cols) - 1 THEN st
    ELSE UpstreamCols(cols, n + 1, UpstreamCol(st, n - 1, cols[n]))

UpstreamRow(row) ==
    UpstreamCols(Split(row, ColSep), 1, [ch |-> <<>>, u |-> NewUpstream])

RECURSIVE UpstreamRows(_, _, _)
UpstreamRows(rows, n, m) ==
    IF n > Len(rows) THEN m
    ELSE LET st == UpstreamRow(rows[n])
         IN  UpstreamRows(rows, n + 1, MapSet(m, st.ch, st.u))

\* fmt.Errorf("Expected more than channels, got %d", len(rows)), len(rows) <= 2
TooFewUpstream(n) ==
    IF n = 1 THEN "Expected more than channels, got 1"
    ELSE "Expected more than channels, got 2"

parseUpstreamTable(t) ==
    LET rows == Split(t, RowSep)
    IN  IF Len(rows) <= 2
        THEN [err |-> TooFewUpstream(Len(rows)), m |-> EmptyMap]
        ELSE [err |-> NoError, m |-> UpstreamRows(rows, 1, EmptyMap)]

-----------------------------------------------------------------------------
(* parseStatus *)

parseStatus(s) ==
    LET d == parseDownstreamTable(s.down)
        u == parseUpstreamTable(s.up)
    IN  IF d.err # NoError THEN [err |-> d.err, signal |-> NilSignal]
        ELSE IF u.err # NoError THEN [err |-> u.err, signal |-> NilSignal]
        ELSE [err |-> NoError, signal |-> [Downstream |-> d.m, Upstream |-> u.m]]

-----------------------------------------------------------------------------
(* The payloads parseStatus is applied to *)

MaxDownRows == 2
MaxUpRows == 3

\* strings.Join(pieces, sep), the inverse direction of Split
RECURSIVE Join(_, _)
Join(pieces, sep) ==
    IF Len(pieces) = 0 THEN <<>>
    ELSE IF Len(pieces) = 1 THEN pieces[1]
    ELSE pieces[1] \o <<sep>> \o Join(Tail(pieces), sep)

\* A row as the modem writes it: every cell followed by the field separator.
Terminated(cells) == Join(cells \o << <<>> >>, ColSep)

Word(w) == <<w>>
Junk == Word("x")

Id1 == <<"1">>
Id2 == <<"2">>
Id5 == <<"5">>
Id6 == <<"6">>
Id7 == <<"7">>

Freq441 == <<"4", "4", "1", "0", "0", "0", "0", "0", "0">>
Freq447 == <<"4", "4", "7", "0", "0", "0", "0", "0", "0">>
Freq365 == <<"3", "6", "5", "0", "0", "0", "0", "0">>
Freq301 == <<"3", "0", "1", "0", "0", "0", "0", "0">>
Freq237 == <<"2", "3", "7", "0", "0", "0", "0", "0">>
Width64 == <<"6", "4", "0", "0", "0", "0", "0">>

\* entry^lock^modulation^id^freq^power^snr^corrected^uncorrected
DownCells(id) ==
    IF id = Id1
    THEN << <<"1">>, Word("Locked"), Word("QAM256"), Id1, Freq441,
            <<"-", "3">>, <<"4", "3">>, <<"0">>, <<"0">> >>
    ELSE << <<"2">>, Word("Locked"), Word("QAM256"), id, Freq447,
            <<"-", "1", ".", "5">>, <<"4", "2">>, <<"1", "2">>, <<"7">> >>

\* entry^lock^type^id^width^freq^power
UpCells(id) ==
    IF id = Id5
    THEN << <<"1">>, Word("Locked"), Word("SC-QAM"), Id5, Width64, Freq365,
            <<"4", "6", ".", "8">> >>
    ELSE IF id = Id6
    THEN << <<"2">>, Word("Not Locked"), Word("SC-QAM"), Id6, Width64, Freq301,
            <<"4", "6", ".", "3">> >>
    ELSE << <<"3">>, Word("Not Locked"), Word("SC-QAM"), id, Width64, Freq237,
            <<"4", "4", ".", "0">> >>

WithCell(cells, c, text) == [cells EXCEPT ![c + 1] = text]

DownRowTexts ==
    {Terminated(DownCells(id)) : id \in {Id1, Id2}}
    \cup {Terminated(WithCell(DownCells(Id1), c, Junk)) : c \in 3..8}
    \cup {Terminated(WithCell(DownCells(Id1), 5, t)) : t \in {<<>>, <<"1", "x">>}}
    \cup {<<>>,
          Join(SubSeq(DownCells(Id1), 1, 4), ColSep),
          Terminated(SubSeq(DownCells(Id1), 1, 4)),
          Join(DownCells(Id2), ColSep),
          Terminated(DownCells(Id2) \o <<Junk>>)}

UpRowTexts ==
    {Terminated(UpCells(id)) : id \in {Id5, Id6, Id7}}
    \cup {Terminated(WithCell(UpCells(Id5), c, Junk)) : c \in 5..6}
    \cup {<<>>,
          Join(SubSeq(UpCells(Id6), 1, 4), ColSep),
          Terminated(UpCells(Id6) \o <<Junk>>)}

RECURSIVE RowSeqs(_, _)
RowSeqs(texts, n) ==
    IF n = 0 THEN {<<>>}
    ELSE LET shorter == RowSeqs(texts, n - 1)
         IN  shorter \cup {Append(rs, t) : rs \in {x \in shorter : Len(x) = n - 1}, t \in texts}

Tables(texts, n) == {Join(rs, RowSep) : rs \in RowSeqs(texts, n)}

GoodDown == Join(<<Terminated(DownCells(Id1)), Terminated(DownCells(Id2))>>, RowSep)
GoodUp ==
    Join(<<Terminated(UpCells(Id5)), Terminated(UpCells(Id6)),
           Terminated(UpCells(Id7))>>, RowSep)

Payloads ==
    {[down |-> d, up |-> u] : d \in Tables(DownRowTexts, MaxDownRows), u \in {<<>>, GoodUp}}
    \cup {[down |-> GoodDown, up |-> u] : u \in Tables(UpRowTexts, MaxUpRows)}

-----------------------------------------------------------------------------
(* The parser applied to a payload *)

NotParsed == [err |-> "pending", signal |-> NilSignal]

-----------------------------------------------------------------------------
(* The transport and what the modem answers *)

\* errors of client.Do and of reading a response body
TransportErrors == {"connection reset by peer", "i/o timeout"}
Canceled == "context canceled"
LoginFailed == "Login Failed"
SyntaxError == "json: invalid character"
TypeError == "json: cannot unmarshal"

HttpCodes == {200, 500}

\* var password: the default of the flag, and the values the flag can be set to
Password == <<"password">>
Passwords == {Password, <<"hunter2">>}

\* A body is bytes.  The body of a JSON exchange is held as the document it
\* spells: kind "invalid" (no JSON value: garbage, nothing, a cut-off
\* document), "object" (a JSON object, its known fields given) or "mistyped"
\* (an object one of whose known fields holds a value of another type).
InvalidBody == [kind |-> "invalid"]

LoginRequestBodies ==
    {InvalidBody}
    \cup {[kind |-> "object", Challenge |-> c, Cookie |-> k, PublicKey |-> <<"pub">>] :
             c \in {<<"challenge1">>, <<"challenge2">>}, k \in {<<"uid1">>}}

\* The bodies answered to the 'login' action, as text.
LoginActionBodies ==
    {<<"O", "K">>, <<"{", "O", "K", "}">>, <<"O", "{", "K">>, <<"K", "O">>,
     <<"F", "A", "I", "L", "E", "D">>, <<>>}

StatusBodies ==
    {InvalidBody,
     [kind |-> "object", down |-> <<>>, up |-> <<>>],
     [kind |-> "object", down |-> GoodDown, up |-> GoodUp],
     [kind |-> "object", down |-> GoodDown, up |-> <<>>],
     [kind |-> "mistyped", down |-> GoodDown, up |-> GoodUp]}

\* What ioutil.ReadAll hands back with an error: the bytes read before the
\* failure, a cut-off prefix or (the failure met after the last byte) all.
PartialRead(body, cut) == IF cut THEN InvalidBody ELSE body

\* A mutant of UnmarshalLogin: a body that is no JSON value decodes to the
\* zero loginResponse without an error.
UnmarshalLoginLenient(b) ==
    IF b.kind = "object"
    THEN [err |-> NoError,
          val |-> [Challenge |-> b.Challenge, Cookie |-> b.Cookie, PublicKey |-> b.PublicKey]]
    ELSE [err |-> NoError, val |-> [Challenge |-> <<>>, Cookie |-> <<>>, PublicKey |-> <<>>]]

\* json.Unmarshal(body, &parsedResponse) into a loginResponse
UnmarshalLogin(b) ==
    IF b.kind = "object"
    THEN [err |-> NoError,
          val |-> [Challenge |-> b.Challenge, Cookie |-> b.Cookie, PublicKey |-> b.PublicKey]]
    ELSE [err |-> SyntaxError, val |-> [Challenge |-> <<>>, Cookie |-> <<>>, PublicKey |-> <<>>]]

\* A mutant of UnmarshalStatus: a type error leaves the statusResponse zero.
UnmarshalStatusStrict(b) ==
    CASE b.kind = "object" -> [err |-> NoError, val |-> [down |-> b.down, up |-> b.up]]
      [] b.kind = "mistyped" -> [err |-> TypeError, val |-> [down |-> <<>>, up |-> <<>>]]
      [] OTHER -> [err |-> SyntaxError, val |-> [down |-> <<>>, up |-> <<>>]]

\* json.Unmarshal(b, response) into a statusResponse: a type error is
\* reported after the other fields have been filled.
UnmarshalStatus(b) ==
    CASE b.kind = "object" -> [err |-> NoError, val |-> [down |-> b.down, up |-> b.up]]
      [] b.kind = "mistyped" -> [err |-> TypeError, val |-> [down |-> b.down, up |-> b.up]]
      [] OTHER -> [err |-> SyntaxError, val |-> [down |-> <<>>, up |-> <<>>]]

\* encrypt(key, value): the HMAC-MD5 of value under key in upper-case hex,
\* kept as the text of the term of its arguments, the key first.
encrypt(key, value) == <<"HMAC-MD5(">> \o key \o <<",">> \o value \o <<")">>

\* A mutant of privateKey: the challenge is the key, PublicKey+password the
\* message.
privateKeySwapped(l) == encrypt(l.Challenge, l.PublicKey \o password)

\* privateKey(l): the key is PublicKey+password, the message the challenge.
privateKey(l) == encrypt(l.PublicKey \o password, l.Challenge)

encryptedPass(l, key) == encrypt(key, l.Challenge)

\* time.Now().UnixNano(): a count of nanoseconds, held in three limbs of six
\* decimal digits, [hi, lo, ns] standing for (hi * 10^6 + lo) * 10^6 + ns.
Limb == 1000000

\* 2000000000000 is WrapHi * Limb
WrapHi == 2000000

Time(hi, lo, ns) == [hi |-> hi, lo |-> lo, ns |-> ns]

\* The clock at the readings of time.Now(): today, the last millisecond
\* before the modulus, and the modulus one millisecond later.
Times ==
    {Time(1793491, 200000, 123456), Time(WrapHi - 1, Limb - 1, Limb - 1),
     Time(WrapHi, 0, 7)}

\* UnixNano() / 1000000: the milliseconds, [hi, lo] for hi * 10^6 + lo
UnixMillis(now) == [hi |-> now.hi, lo |-> now.lo]

\* ms % 2000000000000
Wrap(ms) == [hi |-> ms.hi % WrapHi, lo |-> ms.lo]

DigitOf(d) == <<"0", "1", "2", "3", "4", "5", "6", "7", "8", "9">>[d + 1]

\* The decimal digits of a natural number.
RECURSIVE IntDigits(_)
IntDigits(n) ==
    IF n < 10 THEN <<DigitOf(n)>> ELSE IntDigits(n \div 10) \o <<DigitOf(n % 10)>>

\* s with zeros in front up to width w
ZeroPad(s, w) == [i \in 1..w |-> IF i <= w - Len(s) THEN "0" ELSE s[i - (w - Len(s))]]

\* fmt.Sprintf("%d", t) of a count of milliseconds
FormatMillis(t) ==
    IF t.hi = 0 THEN IntDigits(t.lo) ELSE IntDigits(t.hi) \o ZeroPad(IntDigits(t.lo), 6)

hnapBase == <<"http://purenetworks.com/HNAP1">>

\* fmt.Sprintf("%s/%s", hnapBase, action)
ActionURL(action) == hnapBase \o <<"/">> \o <<action>>

\* A mutant of hnapAuth: the milliseconds are not reduced.
hnapAuthUnwrapped(key, action, now) ==
    LET t == UnixMillis(now)
    IN  encrypt(key, FormatMillis(t) \o ActionURL(action)) \o <<" ">> \o FormatMillis(t)

\* hnapAuth(privateKey, action), the clock reading now
hnapAuth(key, action, now) ==
    LET t == Wrap(UnixMillis(now))
    IN  encrypt(key, FormatMillis(t) \o ActionURL(action)) \o <<" ">> \o FormatMillis(t)

\* A mutant of SoapAction: every exchange is a Login.
SoapActionLogin(x) == "Login"

\* The SOAP action of an exchange.
SoapAction(x) == IF x = "status" THEN "GetMultipleHNAPs" ELSE "Login"

hnapURL == [scheme |-> "https", host |-> "192.168.100.1", path |-> <<"/", "HNAP1", "/">>]

\* The cookies auth builds: uid and PrivateKey, path "/", secure.
Cookie(name, value) == [Name |-> name, Value |-> value, Path |-> <<"/">>, Secure |-> TRUE]

\* jar.Cookies(u) of a jar holding cs: the cookies the client sends to u, a
\* secure cookie over https only, each under its path; names and values go
\* out, the attributes stay in the jar.
JarCookies(cs, u) ==
    LET Goes(c) == /\ c.Secure => u.scheme = "https"
                   /\ Len(u.path) >= Len(c.Path)
                   /\ SubSeq(u.path, 1, Len(c.Path)) = c.Path
        out == SelectSeq(cs, Goes)
    IN  [i \in 1..Len(out) |-> [Name |-> out[i].Name, Value |-> out[i].Value]]

\* A mutant of CookieValue: the value of the first cookie, whatever its name.
FirstCookieValue(cs, name) == IF cs = <<>> THEN <<>> ELSE cs[1].Value

\* The value of the named cookie, as the loop of getStatus finds it: the last
\* of that name, the empty string when there is none.
RECURSIVE CookieValue(_, _)
CookieValue(cs, name) ==
    IF cs = <<>> THEN <<>>
    ELSE IF cs[Len(cs)].Name = name THEN cs[Len(cs)].Value
    ELSE CookieValue(SubSeq(cs, 1, Len(cs) - 1), name)


-----------------------------------------------------------------------------
(* The Status call *)

NoFakeData == [nil |-> TRUE]
NoResponse == [code |-> 0]
NoFault == [x |-> "none", ph |-> "none", err |-> NoError]
NoCookies == <<>>
NoHeader == [value |-> <<>>, at |-> Time(0, 0, 0)]
NotReturned == [returned |-> FALSE]
Never == [x |-> "none", ph |-> "never"]
Idle == [x |-> "none", ph |-> "idle"]
Done == [x |-> "none", ph |-> "done"]
NoPayload == [down |-> <<>>, up |-> <<>>]

Exchanges == {"request", "login", "status"}

At(x, ph) == [x |-> x, ph |-> ph]

NoFile == [exists |-> FALSE]
NoBytes == [read |-> FALSE]
NoModem == [nil |-> TRUE]

MaxCalls == 2
CallIds == 1..MaxCalls

\* A mutant of NewJar: every call is handed the jar of the first.
SharedJar(c) == CHOOSE j \in CallIds : \A k \in CallIds : j <= k

\* cookiejar.New(nil) in call c: a jar of that call alone
NewJar(c) == c

\* The locals of a Status call that has not begun, its context cancelled
\* already or not.
NoCall(cancelled) ==
    [pc |-> Idle, ctxDone |-> cancelled, sent |-> <<>>,
     rx |-> [x \in Exchanges |-> NoResponse], cookies |-> NoCookies, ret |-> NotReturned]

\* No Status call is made side by side with another.
CallsIdle ==
    /\ calls = [c \in CallIds |-> NoCall(FALSE)]
    /\ jars = [j \in CallIds |-> NoCookies]

\* stats := map[string]*stat{}; var ids []string; nothing published
NoScrape == [row |-> 0, ids |-> <<>>, stats |-> EmptyMap, state |-> "running"]
NoMetrics == [published |-> FALSE]

\* No HTML table is at hand.
HtmlIdle ==
    /\ table = [kind |-> "none", rows |-> <<>>]
    /\ scrape = NoScrape
    /\ metrics = NoMetrics

MaxRequests == 3
Requests == 1..MaxRequests

\* g := &singleflight.Group{}: no call under any key, no request yet
NoCallHeld == 0

\* No /metrics request has arrived.
ServeIdle ==
    /\ g = [m |-> NoCallHeld]
    /\ flight = <<>>
    /\ handlers = [r \in Requests |-> [pc |-> "none", c |-> NoCallHeld, resp |-> NoResponse]]

\* probe has not been called.
ProbeIdle ==
    /\ path = ""
    /\ file = NoFile
    /\ page = NoBytes
    /\ probePc = "idle"
    /\ examined = NoBytes
    /\ probeFault = "none"
    /\ modem = NoModem

Init ==
    /\ payload = NoPayload
    /\ result = NotParsed
    /\ fakeData \in {NoFakeData} \cup {[nil |-> FALSE, bytes |-> b] : b \in StatusBodies}
    /\ pc = Idle
    /\ ctxDone = FALSE
    /\ cancelAt = Never
    /\ sent = <<>>
    /\ rx = [x \in Exchanges |-> NoResponse]
    /\ fault = NoFault
    /\ cookies = NoCookies
    /\ hnap = NoHeader
    /\ authRet = NotReturned
    /\ ret = NotReturned
    /\ password \in Passwords
    /\ ProbeIdle
    /\ CallsIdle
    /\ HtmlIdle
    /\ ServeIdle

\* return nil, err: out of auth (and so out of getStatus and Status) during
\* the login exchanges, out of getStatus and Status during the status query.
ReturnError(err) ==
    /\ pc' = Done
    /\ ret' = [returned |-> TRUE, signal |-> NilSignal, err |-> err]
    /\ authRet' = IF pc.x \in {"request", "login"}
                  THEN [returned |-> TRUE, cookies |-> NoCookies, err |-> err]
                  ELSE authRet

\* return parseStatus(&status)
ReturnParse(s) ==
    /\ payload' = s
    /\ result' = parseStatus(s)
    /\ ret' = [returned |-> TRUE, signal |-> parseStatus(s).signal, err |-> parseStatus(s).err]
    /\ pc' = Done

\* Status: replay the fixture, or start getStatus and with it auth.
Status ==
    /\ pc = Idle
    /\ IF fakeData # NoFakeData
       THEN /\ ReturnParse(UnmarshalStatus(fakeData.bytes).val)
            /\ UNCHANGED <<fakeData, ctxDone, cancelAt, sent, rx, fault, cookies, hnap,
                           authRet>>
       ELSE /\ pc' = At("request", "send")
            /\ UNCHANGED <<parseVars, fakeData, ctxDone, cancelAt, sent, rx, fault, cookies,
                           hnap, authRet, ret>>
    /\ UNCHANGED frameVars

\* The request of exchange x as client.Do sends it: the SOAPAction header,
\* the cookies of the client's jar (the client of the 'request' login has no
\* jar), the HNAP_AUTH header (the 'request' login has none) and, in the body
\* of the 'login' action, LoginPassword.  Field at keeps the clock reading the
\* header was computed from.
Request(x) ==
    [action |-> x,
     soap |-> ActionURL(SoapAction(x)),
     cookies |-> IF x = "request" THEN <<>> ELSE JarCookies(cookies, hnapURL),
     hnap |-> IF x = "request" THEN <<>> ELSE hnap.value,
     at |-> IF x = "request" THEN NoHeader.at ELSE hnap.at,
     LoginPassword |->
         IF x = "login"
         THEN encryptedPass(UnmarshalLogin(rx["request"].body).val,
                            CookieValue(cookies, "PrivateKey"))
         ELSE <<>>]

\* client.Do(req) starts: nothing goes out under a cancelled context.
Send(x) ==
    /\ pc = At(x, "send")
    /\ IF ctxDone
       THEN /\ ReturnError(Canceled)
            /\ fault' = [x |-> x, ph |-> "send", err |-> Canceled]
            /\ UNCHANGED sent
       ELSE /\ sent' = Append(sent, Request(x))
            /\ pc' = At(x, "flight")
            /\ UNCHANGED <<fault, authRet, ret>>
    /\ UNCHANGED <<parseVars, fakeData, ctxDone, cancelAt, rx, cookies, hnap, frameVars>>

\* The errors an exchange in progress can end with: the cancellation once the
\* context is cancelled, a transport error otherwise.
ExchangeErrors == IF ctxDone THEN {Canceled} ELSE TransportErrors

\* client.Do(req) returns an error.
DoFail(x, e) ==
    /\ pc = At(x, "flight")
    /\ e \in ExchangeErrors
    /\ fault' = [x |-> x, ph |-> "flight", err |-> e]
    /\ ReturnError(e)
    /\ UNCHANGED <<parseVars, fakeData, ctxDone, cancelAt, sent, rx, cookies, hnap, frameVars>>

\* client.Do(req) returns a response, whatever its HTTP status.
Respond(x, code, body) ==
    /\ pc = At(x, "flight")
    /\ ~ctxDone
    /\ rx' = [rx EXCEPT ![x] = [code |-> code, body |-> body]]
    /\ pc' = At(x, "read")
    /\ UNCHANGED <<parseVars, fakeData, ctxDone, cancelAt, sent, fault, cookies, hnap,
                   authRet, ret, frameVars>>

\* auth after the body of the 'request' login: decode, derive the key,
\* compute the header of the 'login' action from the clock, set the cookies
\* on the jar, go on to the 'login' action.
AfterRequestBody(body, now) ==
    LET u == UnmarshalLogin(body)
    IN  IF u.err # NoError
        THEN /\ ReturnError(u.err)
             /\ UNCHANGED <<parseVars, cookies, hnap>>
        ELSE /\ hnap' = [value |-> hnapAuth(privateKey(u.val), SoapAction("login"), now),
                         at |-> now]
             /\ cookies' = <<Cookie("uid", u.val.Cookie),
                             Cookie("PrivateKey", privateKey(u.val))>>
             /\ pc' = At("login", "send")
             /\ UNCHANGED <<parseVars, authRet, ret>>

\* auth after the body of the 'login' action: the success marker decides; on
\* success getStatus sets the cookies on the jar of its own client and
\* computes the header of the status query from the PrivateKey cookie.
AfterLoginBody(body, now) ==
    IF Contains(body, <<"O", "K">>)
    THEN /\ authRet' = [returned |-> TRUE, cookies |-> cookies, err |-> NoError]
         /\ hnap' = [value |-> hnapAuth(CookieValue(cookies, "PrivateKey"),
                                        SoapAction("status"), now),
                     at |-> now]
         /\ pc' = At("status", "send")
         /\ UNCHANGED <<parseVars, cookies, ret>>
    ELSE /\ ReturnError(LoginFailed)
         /\ UNCHANGED <<parseVars, cookies, hnap>>

\* getStatus after ReadAll: err = json.Unmarshal(b, response); Status parses
\* the response when err is nil.
AfterStatusBody(b) ==
    LET u == UnmarshalStatus(b)
    IN  IF u.err # NoError
        THEN /\ ReturnError(u.err)
             /\ UNCHANGED <<parseVars, cookies, hnap>>
        ELSE /\ ReturnParse(u.val)
             /\ UNCHANGED <<cookies, hnap, authRet>>

AfterBody(x, b, now) ==
    CASE x = "request" -> AfterRequestBody(b, now)
      [] x = "login" -> AfterLoginBody(b, now)
      [] x = "status" -> AfterStatusBody(b)

\* ioutil.ReadAll(resp.Body) returns the whole body.
ReadOK(x) ==
    /\ pc = At(x, "read")
    /\ ~ctxDone
    /\ \E now \in Times : AfterBody(x, rx[x].body, now)
    /\ UNCHANGED <<fakeData, ctxDone, cancelAt, sent, rx, fault, frameVars>>

\* ioutil.ReadAll(resp.Body) returns an error and the bytes read so far:
\* httpCall hands the error to auth; getStatus overwrites it with Unmarshal's.
ReadFail(x, e, cut) ==
    /\ pc = At(x, "read")
    /\ e \in ExchangeErrors
    /\ fault' = [x |-> x, ph |-> "read", err |-> e]
    /\ IF x = "status"
       THEN AfterStatusBody(PartialRead(rx[x].body, cut))
       ELSE /\ ReturnError(e)
            /\ UNCHANGED <<parseVars, cookies, hnap>>
    /\ UNCHANGED <<fakeData, ctxDone, cancelAt, sent, rx, frameVars>>

\* The caller cancels the context of the call.
Cancel ==
    /\ ~ctxDone
    /\ pc # Done
    /\ ctxDone' = TRUE
    /\ cancelAt' = pc
    /\ UNCHANGED <<parseVars, fakeData, pc, sent, rx, fault, cookies, hnap, authRet, ret,
                   frameVars>>

Bodies(x) ==
    CASE x = "request" -> LoginRequestBodies
      [] x = "login" -> LoginActionBodies
      [] x = "status" -> StatusBodies

Next ==
    \/ Status
    \/ Cancel
    \/ \E x \in Exchanges : Send(x)
    \/ \E x \in Exchanges, e \in TransportErrors \cup {Canceled} : DoFail(x, e)
    \/ \E x \in Exchanges, code \in HttpCodes : \E body \in Bodies(x) : Respond(x, code, body)
    \/ \E x \in Exchanges : ReadOK(x)
    \/ \E x \in Exchanges, e \in TransportErrors \cup {Canceled}, cut \in BOOLEAN :
          ReadFail(x, e, cut)

Spec == Init /\ [][Next]_vars

-----------------------------------------------------------------------------
(* parseStatus on its own, over the payloads *)

InitParse ==
    /\ payload \in Payloads
    /\ result = NotParsed
    /\ fakeData = NoFakeData
    /\ pc = Idle
    /\ ctxDone = FALSE
    /\ cancelAt = Never
    /\ sent = <<>>
    /\ rx = [x \in Exchanges |-> NoResponse]
    /\ fault = NoFault
    /\ cookies = NoCookies
    /\ hnap = NoHeader
    /\ authRet = NotReturned
    /\ ret = NotReturned
    /\ password = Password
    /\ ProbeIdle
    /\ CallsIdle
    /\ HtmlIdle
    /\ ServeIdle

ParseStatus ==
    /\ result = NotParsed
    /\ result' = parseStatus(payload)
    /\ UNCHANGED <<payload, callVars, frameVars>>

NextParse == ParseStatus

SpecParse == InitParse /\ [][NextParse]_vars

-----------------------------------------------------------------------------
(* probe: is the device, or the file at path, an S33 *)

\* []byte(`<span id="thisModelNumberIs"> S33 </span>`)
Marker == <<"<span id=\"thisModelNumberIs\">", " ", "S33", " ", "</span>">>

\* A mutant of isS33: the name of the model anywhere is enough.
isS33Named(b) == Contains(b.text, <<"S33">>)

isS33(b) == Contains(b.text, Marker)

\* Texts with the marker and texts that look like it: another model, the
\* model without the spaces around it, the marker cut off, nothing.
PageTexts ==
    {<<"<html>">> \o Marker \o <<"</html>">>,
     <<"<html>", "<span id=\"thisModelNumberIs\">", " ", "S34", " ", "</span>", "</html>">>,
     <<"<html>", "<span id=\"thisModelNumberIs\">", "S33", "</span>", "</html>">>,
     <<"<html>", "<span id=\"thisModelNumberIs\">", " ", "S33", " ">>,
     <<>>}

\* The bytes a file can hold: a page (no JSON value), or a captured status
\* response, with the marker in its text or without.
FileContents ==
    {[kind |-> "invalid", text |-> t] : t \in PageTexts}
    \cup {[kind |-> k, down |-> GoodDown, up |-> GoodUp, text |-> t] :
             k \in {"object", "mistyped"}, t \in {<<"{">> \o Marker \o <<"}">>, <<"{", "}">>}}

\* The bodies answered to getID: text is what lies within the first 1<<20
\* bytes, beyond what lies after them.
Pages ==
    {[code |-> c, text |-> t, beyond |-> <<>>] :
        c \in HttpCodes, t \in PageTexts}
    \cup {[code |-> 200, text |-> <<"<html>">>, beyond |-> Marker \o <<"</html>">>]}

\* io.LimitReader(rc, 1<<20), read to its end
LimitReader(body) == [text |-> body.text]

\* New(): &s33{}, with its Name()
New == [name |-> "S33", fakeData |-> NoFakeData]

\* the s33 NewFakeData(path) returns on the bytes b of the file
NewFakeData(b) == [name |-> "S33", fakeData |-> [nil |-> FALSE, bytes |-> b]]

CallIdle ==
    /\ payload = NoPayload
    /\ result = NotParsed
    /\ fakeData = NoFakeData
    /\ pc = Idle
    /\ ctxDone = FALSE
    /\ cancelAt = Never
    /\ sent = <<>>
    /\ rx = [x \in Exchanges |-> NoResponse]
    /\ fault = NoFault
    /\ cookies = NoCookies
    /\ hnap = NoHeader
    /\ authRet = NotReturned
    /\ ret = NotReturned
    /\ password = Password

InitProbe ==
    /\ CallIdle
    /\ path \in {"", "testdata/S33.html"}
    /\ file \in IF path = "" THEN {NoFile} ELSE {NoFile} \cup FileContents
    /\ page = NoBytes
    /\ probePc = "start"
    /\ examined = NoBytes
    /\ probeFault = "none"
    /\ modem = NoModem
    /\ CallsIdle
    /\ HtmlIdle
    /\ ServeIdle

\* return nil after the call named by what returned an error
ProbeFails(what) ==
    /\ probeFault' = what
    /\ probePc' = "done"
    /\ modem' = NoModem

\* probe with a path: ioutil.ReadFile(path), then isS33(b).
ProbeReadFile(ok) ==
    /\ probePc = "start"
    /\ path # ""
    /\ IF file = NoFile \/ ~ok
       THEN ProbeFails("ReadFile") /\ UNCHANGED examined
       ELSE /\ examined' = file
            /\ probePc' = IF isS33(file) THEN "NewFakeData" ELSE "done"
            /\ UNCHANGED <<probeFault, modem>>
    /\ UNCHANGED <<parseVars, callVars, callsVars, htmlVars, password, serveVars, path, file, page>>

\* probe with a path, the file an S33: NewFakeData(path) reads the file.
ProbeNewFakeData(ok) ==
    /\ probePc = "NewFakeData"
    /\ IF file = NoFile \/ ~ok
       THEN ProbeFails("NewFakeData")
       ELSE /\ modem' = NewFakeData(file)
            /\ probePc' = "done"
            /\ UNCHANGED probeFault
    /\ UNCHANGED <<parseVars, callVars, callsVars, htmlVars, password, serveVars, path, file, page,
                   examined>>

\* Something else writes or removes the file while probe runs.
FileChange(c) ==
    /\ path # ""
    /\ probePc # "done"
    /\ c # file
    /\ file' = c
    /\ UNCHANGED <<parseVars, callVars, callsVars, htmlVars, password, serveVars, path, page,
                   probePc, examined, probeFault, modem>>

\* probe without a path: getID(ctx) returns an error or the body of the
\* response, whatever its HTTP status.
ProbeGetID(ok, body) ==
    /\ probePc = "start"
    /\ path = ""
    /\ IF ~ok
       THEN ProbeFails("getID") /\ UNCHANGED page
       ELSE /\ page' = body
            /\ probePc' = "ReadAll"
            /\ UNCHANGED <<probeFault, modem>>
    /\ UNCHANGED <<parseVars, callVars, callsVars, htmlVars, password, serveVars, path, file,
                   examined>>

\* probe without a path: ioutil.ReadAll(io.LimitReader(rc, 1<<20)), isS33(b).
ProbeReadAll(ok) ==
    /\ probePc = "ReadAll"
    /\ IF ~ok
       THEN ProbeFails("ReadAll") /\ UNCHANGED examined
       ELSE /\ examined' = LimitReader(page)
            /\ modem' = IF isS33(LimitReader(page)) THEN New ELSE NoModem
            /\ probePc' = "done"
            /\ UNCHANGED probeFault
    /\ UNCHANGED <<parseVars, callVars, callsVars, htmlVars, password, serveVars, path, file, page>>

NextProbe ==
    \/ \E ok \in BOOLEAN : ProbeReadFile(ok)
    \/ \E ok \in BOOLEAN : ProbeNewFakeData(ok)
    \/ \E c \in {NoFile} \cup FileContents : FileChange(c)
    \/ \E ok \in BOOLEAN, body \in Pages : ProbeGetID(ok, body)
    \/ \E ok \in BOOLEAN : ProbeReadAll(ok)

SpecProbe == InitProbe /\ [][NextProbe]_vars

-----------------------------------------------------------------------------
(* Several Status calls on one instance, one after another or side by side. *)
(* Each step is a call's next move between two points where another         *)
(* goroutine can run; the modem answers with any body, the transport can    *)
(* fail, and a context is cancelled before its call begins or not at all.   *)

InitCalls ==
    /\ payload = NoPayload
    /\ result = NotParsed
    /\ fakeData \in {NoFakeData} \cup {[nil |-> FALSE, bytes |-> b] : b \in StatusBodies}
    /\ pc = Idle
    /\ ctxDone = FALSE
    /\ cancelAt = Never
    /\ sent = <<>>
    /\ rx = [x \in Exchanges |-> NoResponse]
    /\ fault = NoFault
    /\ cookies = NoCookies
    /\ hnap = NoHeader
    /\ authRet = NotReturned
    /\ ret = NotReturned
    /\ password = Password
    /\ ProbeIdle
    /\ calls \in [CallIds -> {NoCall(cancelled) : cancelled \in BOOLEAN}]
    /\ jars = [j \in CallIds |-> NoCookies]
    /\ HtmlIdle
    /\ ServeIdle

\* Call c returns.
CallReturn(c, signal, err) ==
    calls' = [calls EXCEPT ![c].pc = Done,
                           ![c].ret = [returned |-> TRUE, signal |-> signal, err |-> err]]

\* Status in call c: replay the fixture, or start getStatus and with it auth.
CallStatus(c) ==
    /\ calls[c].pc = Idle
    /\ IF fakeData # NoFakeData
       THEN LET r == parseStatus(UnmarshalStatus(fakeData.bytes).val)
            IN  CallReturn(c, r.signal, r.err)
       ELSE calls' = [calls EXCEPT ![c].pc = At("request", "send")]
    /\ UNCHANGED <<parseVars, callVars, password, serveVars, probeVars, htmlVars, jars>>

\* The request of exchange x in call c: the cookies its client's jar sends,
\* and the key its HNAP_AUTH header is signed with.
CallRequest(c, x) ==
    [action |-> x,
     cookies |-> IF x = "request" THEN <<>> ELSE JarCookies(jars[NewJar(c)], hnapURL),
     key |-> IF x = "request" THEN <<>> ELSE CookieValue(calls[c].cookies, "PrivateKey")]

\* client.Do(req) in call c: nothing goes out under a cancelled context.
CallSend(c, x) ==
    /\ calls[c].pc = At(x, "send")
    /\ IF calls[c].ctxDone
       THEN CallReturn(c, NilSignal, Canceled)
       ELSE calls' = [calls EXCEPT ![c].pc = At(x, "flight"),
                                   ![c].sent = Append(@, CallRequest(c, x))]
    /\ UNCHANGED <<parseVars, callVars, password, serveVars, probeVars, htmlVars, jars>>

\* The exchange of call c fails in the transport.
CallFail(c, x, e) ==
    /\ calls[c].pc = At(x, "flight")
    /\ CallReturn(c, NilSignal, e)
    /\ UNCHANGED <<parseVars, callVars, password, serveVars, probeVars, htmlVars, jars>>

\* The exchange of call c is answered and the body read: auth derives the
\* key and sets the cookies on its jar, or returns them on the marker and
\* getStatus sets them on the jar of its own client, or Status parses.
CallAnswer(c, x, body) ==
    /\ calls[c].pc = At(x, "flight")
    /\ CASE x = "request" ->
              LET u == UnmarshalLogin(body)
                  cs == <<Cookie("uid", u.val.Cookie), Cookie("PrivateKey", privateKey(u.val))>>
              IN  IF u.err # NoError
                  THEN /\ calls' = [calls EXCEPT ![c].rx[x] = [code |-> 200, body |-> body],
                                                 ![c].pc = Done,
                                                 ![c].ret = [returned |-> TRUE,
                                                             signal |-> NilSignal, err |-> u.err]]
                       /\ UNCHANGED jars
                  ELSE /\ calls' = [calls EXCEPT ![c].rx[x] = [code |-> 200, body |-> body],
                                                 ![c].cookies = cs,
                                                 ![c].pc = At("login", "send")]
                       /\ jars' = [jars EXCEPT ![NewJar(c)] = cs]
         [] x = "login" ->
              IF Contains(body, <<"O", "K">>)
              THEN /\ calls' = [calls EXCEPT ![c].rx[x] = [code |-> 200, body |-> body],
                                             ![c].pc = At("status", "send")]
                   /\ jars' = [jars EXCEPT ![NewJar(c)] = calls[c].cookies]
              ELSE /\ calls' = [calls EXCEPT ![c].rx[x] = [code |-> 200, body |-> body],
                                             ![c].pc = Done,
                                             ![c].ret = [returned |-> TRUE, signal |-> NilSignal,
                                                         err |-> LoginFailed]]
                   /\ UNCHANGED jars
         [] x = "status" ->
              LET u == UnmarshalStatus(body)
                  r == IF u.err # NoError THEN [signal |-> NilSignal, err |-> u.err]
                       ELSE parseStatus(u.val)
              IN  /\ calls' = [calls EXCEPT ![c].rx[x] = [code |-> 200, body |-> body],
                                            ![c].pc = Done,
                                            ![c].ret = [returned |-> TRUE, signal |-> r.signal,
                                                        err |-> r.err]]
                  /\ UNCHANGED jars
    /\ UNCHANGED <<parseVars, callVars, password, serveVars, probeVars, htmlVars>>

\* What the modem answers to a call that runs next to others.
CallBodies(x) ==
    CASE x = "request" -> LoginRequestBodies
      [] x = "login" -> {<<"O", "K">>, <<"F", "A", "I", "L", "E", "D">>}
      [] x = "status" -> {InvalidBody, [kind |-> "object", down |-> GoodDown, up |-> GoodUp]}

NextCalls ==
    \/ \E c \in CallIds : CallStatus(c)
    \/ \E c \in CallIds, x \in Exchanges : CallSend(c, x)
    \/ \E c \in CallIds, x \in Exchanges : CallFail(c, x, "connection reset by peer")
    \/ \E c \in CallIds, x \in Exchanges : \E body \in CallBodies(x) : CallAnswer(c, x, body)

SpecCalls == InitCalls /\ [][NextCalls]_vars

-----------------------------------------------------------------------------
(* The HTML tables of the status page: updateDownstream, updateUpstream,    *)
(* updateSignalStats.  A table is its rows after the heading row, a row its *)
(* cells after the label cell, a cell the fields of its text (the text      *)
(* split at white space), a field a string.                                 *)

\* What the switch does with row 0, 1, ... of a table: "id" opens a stat per
\* cell, "first" stores the first field, "text" the text, "float" the number
\* the first field parses to (times scale); a row past these is unhandled.
RowOps(kind) ==
    LET op(o, f, k) == [op |-> o, field |-> f, scale |-> k]
    IN  CASE kind = "downstream" ->
               <<op("id", "", 1), op("first", "frequency", 1), op("float", "snr", 1),
                 op("text", "modulation", 1), op("float", "powerLevel", 1)>>
          [] kind = "upstream" ->
               <<op("id", "", 1), op("first", "frequency", 1), op("text", "rangingService", 1),
                 op("float", "symbolRate", 1000000), op("float", "powerLevel", 1),
                 op("text", "modulation", 1), op("text", "rangingStatus", 1)>>
          [] kind = "signal" ->
               <<op("id", "", 1), op("float", "unerrored", 1), op("float", "correctable", 1),
                 op("float", "uncorrectable", 1)>>

\* &stat{}
ZeroStat(kind) ==
    CASE kind = "downstream" ->
           [frequency |-> <<>>, snr |-> Zero, modulation |-> <<>>, powerLevel |-> Zero]
      [] kind = "upstream" ->
           [frequency |-> <<>>, rangingService |-> <<>>, rangingStatus |-> <<>>,
            symbolRate |-> Zero, modulation |-> <<>>, powerLevel |-> Zero]
      [] kind = "signal" -> [unerrored |-> Zero, correctable |-> Zero, uncorrectable |-> Zero]

\* default: glog.Fatalf logs and ends the process with os.Exit(255).
UnhandledRow(sc) == [sc EXCEPT !.state = "exited"]

\* The body of the loop over the cells of a row, for cell i (from 1):
\* Fields(...)[0] of a text without fields panics; a first field that is no
\* number is passed over (continue); ids[i] beyond the ids panics.
Cell(kind, sc, o, i, cell) ==
    IF sc.state # "running" THEN sc
    ELSE IF o.op = "id"
    THEN [sc EXCEPT !.ids = Append(@, cell), !.stats = MapSet(@, cell, ZeroStat(kind))]
    ELSE IF o.op \in {"first", "float"} /\ cell = <<>> THEN [sc EXCEPT !.state = "panicked"]
    ELSE IF o.op = "float" /\ ParseFloat(cell[1]).err THEN sc
    ELSE IF i > Len(sc.ids) THEN [sc EXCEPT !.state = "panicked"]
    ELSE CASE o.op = "text" -> [sc EXCEPT !.stats[sc.ids[i]][o.field] = cell]
           [] o.op = "first" -> [sc EXCEPT !.stats[sc.ids[i]][o.field] = cell[1]]
           [] o.op = "float" ->
                LET p == ParseFloat(cell[1])
                IN  [sc EXCEPT !.stats[sc.ids[i]][o.field] = Normalize(p.f.m * o.scale, p.f.e)]

\* The loop over the cells of a row, from cell i on.
RECURSIVE Cells(_, _, _, _, _)
Cells(kind, sc, o, cells, i) ==
    IF i > Len(cells) THEN sc
    ELSE Cells(kind, Cell(kind, sc, o, i, cells[i]), o, cells, i + 1)

\* A cell of text.
TextCell == <<<<"QAM256">>>>

\* The rows of a table as the modem writes it, for two channels.
GoodRows(kind) ==
    [r \in 1..Len(RowOps(kind)) |->
        LET o == RowOps(kind)[r]
        IN  CASE o.op = "id" -> <<<<<<"1">>>>, <<<<"2">>>>>>
              [] o.op = "first" -> <<<<<<"5", "5", "5">>, <<"Hz">>>>, <<<<"5", "6", "1">>, <<"Hz">>>>>>
              [] o.op = "text" -> <<TextCell, TextCell>>
              [] o.op = "float" ->
                   IF kind = "signal" THEN <<<<<<"4", "2">>>>, <<<<"0">>>>>>
                   ELSE <<<<<<"3", "6">>, <<"dB">>>>, <<<<"3", "7", ".", "5">>, <<"dB">>>>>>]

\* A row with its second cell not a number, empty, or one of three.
BadRows(row) == {<<row[1], <<<<"x">>>>>>, <<row[1], <<>>>>, <<row[1], row[2], row[2]>>}

\* The tables met: the table as the modem writes it, cut after a row, with
\* an extra row, and with a bad second, last or numeric row.
HtmlTables ==
    UNION {LET good == GoodRows(kind)
               n == Len(good)
               bad == {2, n} \cup {r \in 1..n : RowOps(kind)[r].op = "float"}
               tables == {good, SubSeq(good, 1, n - 1), Append(good, <<TextCell, TextCell>>)}
                         \cup UNION {{[good EXCEPT ![r] = row] : row \in BadRows(good[r])} :
                                        r \in bad}
           IN  {[kind |-> kind, rows |-> rows] : rows \in tables}
           : kind \in {"downstream", "upstream", "signal"}}

InitHtml ==
    /\ CallIdle
    /\ ProbeIdle
    /\ CallsIdle
    /\ ServeIdle
    /\ table \in HtmlTables
    /\ scrape = NoScrape
    /\ metrics = NoMetrics

\* One turn of the loop over the rows: the switch on the row index.
HtmlRow ==
    /\ scrape.state = "running"
    /\ scrape.row < Len(table.rows)
    /\ scrape' =
          IF scrape.row >= Len(RowOps(table.kind)) THEN UnhandledRow(scrape)
          ELSE LET done == Cells(table.kind, scrape, RowOps(table.kind)[scrape.row + 1],
                                 table.rows[scrape.row + 1], 1)
               IN  IF done.state = "running" THEN [done EXCEPT !.row = @ + 1] ELSE done
    /\ UNCHANGED <<parseVars, callVars, password, serveVars, probeVars, callsVars, table, metrics>>

\* After the loop: the metrics are set from stats.
HtmlPublish ==
    /\ scrape.state = "running"
    /\ scrape.row = Len(table.rows)
    /\ metrics' = [published |-> TRUE, stats |-> scrape.stats]
    /\ scrape' = [scrape EXCEPT !.state = "published"]
    /\ UNCHANGED <<parseVars, callVars, password, serveVars, probeVars, callsVars, table>>

NextHtml == HtmlRow \/ HtmlPublish

SpecHtml == InitHtml /\ [][NextHtml]_vars

-----------------------------------------------------------------------------
(* The /metrics handler of main: g.Do("get", ...) around get(), then the    *)
(* response.  Each request runs the handler on a goroutine of its own; a    *)
(* step is what a handler does between two points where another can act.    *)
(* Group.Do of groupcache/singleflight: under g.mu, return the call held    *)
(* under the key to wait on it, or make one and hold it; run fn; c.wg.Done; *)
(* under g.mu, delete the key.                                              *)

\* A mutant of Lookup: the handler calls get() without the group.
LookupMisses == NoCallHeld

\* c, ok := g.m[key], for the one key "get"
Lookup == g.m

\* glog.Fatalf ended the process: no goroutine takes another step.
Exited == \E c \in 1..Len(flight) : flight[c].fn = "exited"

\* A request arrives and its handler enters g.Do: the critical section that
\* looks the key up.
DoEnter(r) ==
    /\ ~Exited
    /\ handlers[r].pc = "none"
    /\ IF Lookup # NoCallHeld
       THEN /\ handlers' = [handlers EXCEPT ![r] = [@ EXCEPT !.pc = "wg.Wait", !.c = Lookup]]
            /\ UNCHANGED <<g, flight>>
       ELSE /\ flight' = Append(flight, [fn |-> "running", err |-> FALSE, wg |-> 1])
            /\ g' = [m |-> Len(flight) + 1]
            /\ handlers' = [handlers EXCEPT ![r] = [@ EXCEPT !.pc = "fn", !.c = Len(flight) + 1]]
    /\ UNCHANGED <<parseVars, callVars, password, probeVars, callsVars, htmlVars>>

\* c.val, c.err = fn(); c.wg.Done(): get() ends, with nil ("nil"), with
\* the error of http.Get or html.Parse ("err"), in the panic of an update
\* function ("panicked") or in its glog.Fatalf ("exited").  A panic unwinds
\* the handler past Do (net/http recovers it and drops the connection), an
\* exit ends the process; neither reaches c.wg.Done() or the delete.
DoFn(r, out) ==
    /\ ~Exited
    /\ handlers[r].pc = "fn"
    /\ LET c == handlers[r].c
       IN  IF out \in {"panicked", "exited"}
           THEN /\ flight' = [flight EXCEPT ![c].fn = out]
                /\ handlers' = [handlers EXCEPT ![r].pc = out]
           ELSE /\ flight' = [flight EXCEPT ![c] = [fn |-> "returned", err |-> (out = "err"),
                                                    wg |-> 0]]
                /\ handlers' = [handlers EXCEPT ![r].pc = "delete"]
    /\ UNCHANGED <<parseVars, callVars, password, probeVars, callsVars, htmlVars, g>>

\* g.mu.Lock(); delete(g.m, key); g.mu.Unlock(); return c.val, c.err
DoDelete(r) ==
    /\ ~Exited
    /\ handlers[r].pc = "delete"
    /\ g' = [m |-> NoCallHeld]
    /\ handlers' = [handlers EXCEPT ![r].pc = "respond"]
    /\ UNCHANGED <<parseVars, callVars, password, probeVars, callsVars, htmlVars, flight>>

\* c.wg.Wait(); return c.val, c.err
DoWait(r) ==
    /\ ~Exited
    /\ handlers[r].pc = "wg.Wait"
    /\ flight[handlers[r].c].wg = 0
    /\ handlers' = [handlers EXCEPT ![r].pc = "respond"]
    /\ UNCHANGED <<parseVars, callVars, password, probeVars, callsVars, htmlVars, g, flight>>

\* After Do: http.Error(w, err.Error(), 500) on an error, else
\* ph.ServeHTTP(w, r), the metrics page.
Answer(r) ==
    /\ ~Exited
    /\ handlers[r].pc = "respond"
    /\ handlers' = [handlers EXCEPT ![r] =
                       [@ EXCEPT !.pc = "served",
                                 !.resp = IF flight[handlers[r].c].err
                                          THEN [code |-> 500, metrics |-> FALSE]
                                          ELSE [code |-> 200, metrics |-> TRUE]]]
    /\ UNCHANGED <<parseVars, callVars, password, probeVars, callsVars, htmlVars, g, flight>>

InitServe ==
    /\ CallIdle
    /\ ProbeIdle
    /\ CallsIdle
    /\ HtmlIdle
    /\ ServeIdle

NextServe ==
    \/ \E r \in Requests : DoEnter(r)
    \/ \E r \in Requests, out \in {"nil", "err", "panicked", "exited"} : DoFn(r, out)
    \/ \E r \in Requests : DoDelete(r)
    \/ \E r \in Requests : DoWait(r)
    \/ \E r \in Requests : Answer(r)

SpecServe == InitServe /\ [][NextServe]_vars

-----------------------------------------------------------------------------
(* What the claims say about a payload and its parse *)

Parsed == result # NotParsed
Accepted == Parsed /\ result.err = NoError

DownRowsOf(s) == Split(s.down, RowSep)
UpRowsOf(s) == Split(s.up, RowSep)

\* The channel rows a raw table holds: none for the empty string, otherwise
\* one more than it has record separators.
NumRows(t) ==
    IF t = <<>> THEN 0 ELSE 1 + Cardinality({i \in 1..Len(t) : t[i] = RowSep})

\* C1: a payload whose downstream string holds no channel row, or whose
\* upstream string holds fewer than its three rows, gets an error and no
\* Signal from parseStatus.
C1_TooFewRowsIsAnError ==
    Parsed /\ (NumRows(payload.down) < 1 \/ NumRows(payload.up) < 3)
        => result.err # NoError /\ result.signal = NilSignal

-----------------------------------------------------------------------------
\* The numeric columns and the fields they fill.
DownNumericField(c) ==
    CASE c = 5 -> "PowerLevel" [] c = 6 -> "SNR"
      [] c = 7 -> "Correctable" [] c = 8 -> "Uncorrectable"
UpNumericField(c) == "PowerLevel"

Seven == <<"7">>

\* The table with cell c (from 0) of row r replaced by text.
ReplaceCell(t, r, c, text) ==
    LET rows == Split(t, RowSep)
        cols == Split(rows[r], ColSep)
    IN  Join([rows EXCEPT ![r] = Join([cols EXCEPT ![c + 1] = text], ColSep)], RowSep)

\* The cells of the numeric columns that are not numbers: <<row, column>>.
BadCells(t, numericCols) ==
    {rc \in (1..Len(Split(t, RowSep))) \X numericCols :
        LET cols == Split(Split(t, RowSep)[rc[1]], ColSep)
        IN  rc[2] + 1 <= Len(cols) /\ ParseFloat(cols[rc[2] + 1]).err}

\* Map a holds what map b holds, but for field fld of the record under key k,
\* which is zero in a when zeroed is true.
SameButField(a, b, k, fld, zeroed) ==
    /\ DOMAIN a = DOMAIN b
    /\ \A x \in DOMAIN a :
          IF x = k /\ zeroed THEN a[x] = [b[x] EXCEPT ![fld] = Zero] ELSE a[x] = b[x]

\* Row r is the last row of rows to be stored under its key.
IsLastWithKey(keys, r) == \A j \in (r + 1)..Len(keys) : keys[j] # keys[r]

DownKeys(t) == [r \in 1..Len(Split(t, RowSep)) |-> DownstreamRow(Split(t, RowSep)[r]).ch]
UpKeys(t) == [r \in 1..Len(Split(t, RowSep)) |-> UpstreamRow(Split(t, RowSep)[r]).ch]

\* C2: a cell of a numeric column that is not a number raises no error and
\* leaves its field at zero; every other field of the row and every other
\* row is what it is when the cell holds a number.
C2_BadCellIsZeroAndLocal ==
    Parsed =>
        /\ \A rc \in BadCells(payload.down, 5..8) :
              LET fixed == parseStatus([payload EXCEPT
                               !.down = ReplaceCell(payload.down, rc[1], rc[2], Seven)])
                  keys  == DownKeys(payload.down)
              IN  /\ result.err = fixed.err
                  /\ result.err = NoError =>
                        /\ result.signal.Upstream = fixed.signal.Upstream
                        /\ SameButField(result.signal.Downstream, fixed.signal.Downstream,
                                        keys[rc[1]], DownNumericField(rc[2]),
                                        IsLastWithKey(keys, rc[1]))
        /\ \A rc \in BadCells(payload.up, {6}) :
              LET fixed == parseStatus([payload EXCEPT
                               !.up = ReplaceCell(payload.up, rc[1], rc[2], Seven)])
                  keys  == UpKeys(payload.up)
              IN  /\ result.err = fixed.err
                  /\ result.err = NoError =>
                        /\ result.signal.Downstream = fixed.signal.Downstream
                        /\ SameButField(result.signal.Upstream, fixed.signal.Upstream,
                                        keys[rc[1]], UpNumericField(rc[2]),
                                        IsLastWithKey(keys, rc[1]))

\* An accepted payload of two downstream rows, the last with a junk power
\* cell: its power is zero and its SNR is the one of the row.
C2_Witness ==
    /\ Accepted
    /\ Len(DownRowsOf(payload)) = 2
    /\ <<2, 5>> \in BadCells(payload.down, {5})
    /\ Id1 \in DOMAIN result.signal.Downstream
    /\ result.signal.Downstream[Id1].PowerLevel = Zero
    /\ result.signal.Downstream[Id1].SNR = [m |-> 43, e |-> 0]

-----------------------------------------------------------------------------
\* The fields of a raw row: its cells, the trailing empty field discarded.
RowFields(row) ==
    LET cols == Split(row, ColSep)
    IN  IF cols[Len(cols)] = <<>> THEN SubSeq(cols, 1, Len(cols) - 1) ELSE cols

\* The channel IDs that occur in the rows of a raw table: the fourth field.
ChannelIds(t) ==
    LET rows == Split(t, RowSep)
    IN  {RowFields(rows[r])[4] : r \in {x \in 1..Len(rows) : Len(RowFields(rows[x])) >= 4}}

\* C3: every channel ID that occurs in a row of an accepted payload is a key
\* of the output map of its direction.
C3_EveryChannelIdIsAKey ==
    Accepted =>
        /\ ChannelIds(payload.down) \subseteq DOMAIN result.signal.Downstream
        /\ ChannelIds(payload.up) \subseteq DOMAIN result.signal.Upstream

-----------------------------------------------------------------------------
\* A row with every column of its table and the trailing separator, a
\* channel ID, and numbers in the numeric columns.
WellFormedRow(row, ncols, numericCols) ==
    LET cols == Split(row, ColSep)
    IN  /\ Len(cols) = ncols + 1
        /\ cols[ncols + 1] = <<>>
        /\ cols[4] # <<>>
        /\ \A c \in numericCols : ~ParseFloat(cols[c + 1]).err

\* A table of well-formed rows with pairwise different channel IDs.
WellFormedTable(t, ncols, numericCols) ==
    LET rows == Split(t, RowSep)
    IN  /\ \A r \in 1..Len(rows) : WellFormedRow(rows[r], ncols, numericCols)
        /\ \A r, q \in 1..Len(rows) :
              r # q => Split(rows[r], ColSep)[4] # Split(rows[q], ColSep)[4]

\* The record the position table gives for a well-formed row.
ExpectedDown(row) ==
    LET cols == Split(row, ColSep)
    IN  [Modulation |-> cols[3], Frequency |-> cols[5] \o <<" ", "H", "z">>,
         PowerLevel |-> ParseFloat(cols[6]).f, SNR |-> ParseFloat(cols[7]).f,
         Correctable |-> ParseFloat(cols[8]).f, Uncorrectable |-> ParseFloat(cols[9]).f]

ExpectedUp(row) ==
    LET cols == Split(row, ColSep)
    IN  [Status |-> cols[2], Modulation |-> cols[3],
         Frequency |-> cols[6] \o <<" ", "H", "z">>, PowerLevel |-> ParseFloat(cols[7]).f]

\* The map that holds the expected record of every row under the row's ID.
ExpectedMap(t, Expected(_)) ==
    LET rows == Split(t, RowSep)
        ids  == {Split(rows[r], ColSep)[4] : r \in 1..Len(rows)}
    IN  [id \in ids |->
            Expected(rows[CHOOSE r \in 1..Len(rows) : Split(rows[r], ColSep)[4] = id])]

\* The records of the captured response: downstream channel "1", upstream "5".
FixtureDown1 ==
    [Modulation |-> <<"QAM256">>,
     Frequency |-> <<"4", "4", "1", "0", "0", "0", "0", "0", "0", " ", "H", "z">>,
     PowerLevel |-> [m |-> -3, e |-> 0], SNR |-> [m |-> 43, e |-> 0],
     Correctable |-> [m |-> 0, e |-> 0], Uncorrectable |-> [m |-> 0, e |-> 0]]

FixtureUp5 ==
    [Status |-> <<"Locked">>, Modulation |-> <<"SC-QAM">>,
     Frequency |-> <<"3", "6", "5", "0", "0", "0", "0", "0", " ", "H", "z">>,
     PowerLevel |-> [m |-> 468, e |-> 1]]

HasRow(t, row) == \E r \in 1..Len(Split(t, RowSep)) : Split(t, RowSep)[r] = row

\* C4: in an accepted payload a table of well-formed rows gives exactly the
\* records of the position table, one per row under the row's channel ID,
\* and no others; the captured rows give the literal records of the test.
C4_PositionTable ==
    Accepted =>
        /\ WellFormedTable(payload.down, 9, 5..8) =>
              /\ result.signal.Downstream = ExpectedMap(payload.down, ExpectedDown)
              /\ HasRow(payload.down, Terminated(DownCells(Id1))) =>
                    result.signal.Downstream[Id1] = FixtureDown1
        /\ WellFormedTable(payload.up, 7, {6}) =>
              /\ result.signal.Upstream = ExpectedMap(payload.up, ExpectedUp)
              /\ HasRow(payload.up, Terminated(UpCells(Id5))) =>
                    result.signal.Upstream[Id5] = FixtureUp5

\* An accepted payload of well-formed tables with the captured rows in both.
C4_Witness ==
    /\ Accepted
    /\ WellFormedTable(payload.down, 9, 5..8)
    /\ WellFormedTable(payload.up, 7, {6})
    /\ Len(DownRowsOf(payload)) = 2
    /\ result.signal.Downstream[Id1] = FixtureDown1
    /\ result.signal.Upstream[Id5] = FixtureUp5
    /\ DOMAIN result.signal.Upstream = {Id5, Id6, Id7}

-----------------------------------------------------------------------------
\* '<integer> Hz': an optional sign, one digit or more, a space and "Hz".
IsInteger(text) ==
    LET body == IF Len(text) > 0 /\ text[1] \in {"+", "-"} THEN Tail(text) ELSE text
    IN  Len(body) > 0 /\ \A i \in 1..Len(body) : IsDigit(body[i])

IsCanonicalHz(s) ==
    /\ Len(s) >= 4
    /\ SubSeq(s, Len(s) - 2, Len(s)) = <<" ", "H", "z">>
    /\ IsInteger(SubSeq(s, 1, Len(s) - 3))

FrequencyOfRow(row, c) ==
    LET cols == Split(row, ColSep)
    IN  IF Len(cols) - 1 >= c + 1 THEN cols[c + 1] \o <<" ", "H", "z">> ELSE <<>>

FrequencyCellIsInteger(row, c) ==
    LET cols == Split(row, ColSep)
    IN  Len(cols) - 1 >= c + 1 /\ IsInteger(cols[c + 1])

-----------------------------------------------------------------------------
(* What the claims say about a live Status call *)

Live == fakeData = NoFakeData
Returned == pc = Done

\* The text has an "O" with a "K" right after it.
HasMarker(text) == \E i \in 1..(Len(text) - 1) : text[i] = "O" /\ text[i + 1] = "K"

\* auth got the whole body of the response to the 'login' action.
LoginBodyRead == rx["login"] # NoResponse /\ fault.x # "login" /\ pc.x # "login"

Actions(reqs) == [i \in 1..Len(reqs) |-> reqs[i].action]

\* C7: auth returns the cookies exactly when the body answered to the 'login'
\* action holds the success marker; on any other body it returns the error
\* "Login Failed" and no cookies, and Status returns that error having sent
\* the two login requests once each and no status query.
C7_LoginMarkerDecides ==
    /\ authRet # NotReturned =>
          /\ authRet.cookies # NoCookies <=> LoginBodyRead /\ HasMarker(rx["login"].body)
          /\ authRet.cookies # NoCookies => authRet.cookies = cookies /\ authRet.err = NoError
          /\ authRet.cookies = NoCookies => authRet.err # NoError
    /\ LoginBodyRead /\ ~HasMarker(rx["login"].body) =>
          /\ authRet = [returned |-> TRUE, cookies |-> NoCookies, err |-> LoginFailed]
          /\ ret = [returned |-> TRUE, signal |-> NilSignal, err |-> LoginFailed]
          /\ pc = Done
          /\ Actions(sent) = <<"request", "login">>

\* A login answered with a text that has the letters of the marker apart:
\* the call is over with "Login Failed" and no status query went out.
C7_Witness ==
    /\ Live /\ Returned
    /\ rx["login"] # NoResponse
    /\ rx["login"].body = <<"O", "{", "K">>
    /\ ret.err = LoginFailed
    /\ Actions(sent) = <<"request", "login">>

\* C8: a response to the status query with a non-2xx status, or with a body
\* that does not decode as the envelope, makes Status return an error and
\* no Signal.
C8_BadStatusResponseIsAnError ==
    Live /\ Returned /\ rx["status"] # NoResponse
         /\ (rx["status"].code \notin 200..299
             \/ UnmarshalStatus(rx["status"].body).err # NoError)
        => ret.err # NoError /\ ret.signal = NilSignal

\* The requests that have gone out when exchange x is the last one.
SentUpTo(x) ==
    CASE x = "request" -> <<"request">>
      [] x = "login" -> <<"request", "login">>
      [] x = "status" -> <<"request", "login", "status">>

\* C9: a transport failure in sending a request or in reading a response
\* body makes Status return that very error, and no request goes out after.
C9_TransportErrorReturnedUnchanged ==
    Live /\ Returned /\ fault.err \in TransportErrors
        => /\ ret.err = fault.err
           /\ ret.signal = NilSignal
           /\ Actions(sent) = SentUpTo(fault.x)

\* C10: a context cancelled while a request is in flight or a body is being
\* read makes Status return the cancellation, never another error or a
\* Signal.
C10_CancelledCallReturnsCancellation ==
    Live /\ Returned /\ cancelAt.ph \in {"flight", "read"}
        => ret.err = Canceled /\ ret.signal = NilSignal

-----------------------------------------------------------------------------
(* The handshake of a live call: order, keys, headers, cookies *)

\* The loginResponse auth decoded from the answer to the 'request' login.
Challenged == rx["request"].body

\* The requests that went out for exchange x.
SentFor(x) == {i \in 1..Len(sent) : sent[i].action = x}

Authenticated == {i \in 1..Len(sent) : sent[i].action \in {"login", "status"}}

\* C15: the steps of a live call happen in order, each after the one before
\* it succeeded: the 'request' login goes out first, the keys are derived
\* and the cookies set only from its decoded response, the 'login' action
\* goes out only then, the status query only after the success marker was
\* seen in the answer to the 'login' action, and the envelope is parsed only
\* after the status query was answered.
C15_StepsInOrder ==
    Live =>
       /\ Actions(sent) \in {<<>>, <<"request">>, <<"request", "login">>,
                             <<"request", "login", "status">>}
       /\ \A x \in Exchanges : rx[x] # NoResponse => SentFor(x) # {}
       /\ cookies # NoCookies =>
             /\ rx["request"] # NoResponse
             /\ Challenged.kind = "object"
             /\ fault.x # "request"
       /\ SentFor("login") # {} => cookies # NoCookies
       /\ SentFor("status") # {} =>
             /\ LoginBodyRead /\ HasMarker(rx["login"].body)
             /\ authRet = [returned |-> TRUE, cookies |-> cookies, err |-> NoError]
       /\ authRet # NotReturned /\ authRet.err = NoError => SentFor("login") # {}
       /\ Parsed => rx["status"] # NoResponse /\ Returned

\* A call that went through every step to a parsed envelope.
C15_Witness ==
    /\ Live /\ Returned /\ Parsed
    /\ Actions(sent) = <<"request", "login", "status">>
    /\ ret.err = NoError

\* The values of the named cookie among those request r carried.
SentCookie(r, name) ==
    {r.cookies[k].Value : k \in {j \in 1..Len(r.cookies) : r.cookies[j].Name = name}}

\* C16 as stated: the private key is the keyed hash, under the challenge as
\* key, of public key ++ password, and the encrypted password the keyed hash,
\* under the challenge as key, of the private key.
C16_ChallengeIsTheKey ==
    \A i \in SentFor("login") :
        /\ SentCookie(sent[i], "PrivateKey") =
              {encrypt(Challenged.Challenge, Challenged.PublicKey \o password)}
        /\ sent[i].LoginPassword =
              encrypt(Challenged.Challenge,
                      encrypt(Challenged.Challenge, Challenged.PublicKey \o password))

\* C16: the private key is the keyed hash, under public key ++ password as
\* key, of the challenge, and the encrypted password the keyed hash, under
\* the private key as key, of the challenge, whatever the challenge, the
\* public key and the password are.
C16_ChallengeIsTheMessage ==
    \A i \in SentFor("login") :
        /\ SentCookie(sent[i], "PrivateKey") =
              {encrypt(Challenged.PublicKey \o password, Challenged.Challenge)}
        /\ sent[i].LoginPassword =
              encrypt(encrypt(Challenged.PublicKey \o password, Challenged.Challenge),
                      Challenged.Challenge)

\* A 'login' action sent under a password set on the command line.
C16_Witness ==
    /\ SentFor("login") # {}
    /\ password = <<"hunter2">>
    /\ Challenged.Challenge = <<"challenge2">>
    /\ sent[2].LoginPassword # <<>>

\* The milliseconds after ms.
NextMillis(ms) ==
    IF ms.lo = Limb - 1 THEN [hi |-> ms.hi + 1, lo |-> 0] ELSE [hi |-> ms.hi, lo |-> ms.lo + 1]

\* The milliseconds a decimal text of up to twelve and more digits spells.
ReadMillis(ds) ==
    IF Len(ds) <= 6 THEN [hi |-> 0, lo |-> DigitsValue(ds)]
    ELSE [hi |-> DigitsValue(SubSeq(ds, 1, Len(ds) - 6)),
          lo |-> DigitsValue(SubSeq(ds, Len(ds) - 5, Len(ds)))]

\* t is the count of milliseconds of the reading now, modulo 2 * 10^12.
IsTimestampOf(t, now) ==
    /\ t.lo = now.lo
    /\ 0 <= t.hi /\ t.hi < WrapHi
    /\ \E k \in 0..1 : now.hi = t.hi + k * WrapHi

\* h is the header for key and action at the reading now: the keyed hash,
\* under key, of the timestamp followed by the action URL, then one space,
\* then the same timestamp in decimal.
IsHeaderFor(h, key, action, now) ==
    \E n \in 1..Len(h) :
        LET ds == SubSeq(h, n + 1, Len(h))
        IN  /\ h[n] = " "
            /\ ds # <<>> /\ \A k \in 1..Len(ds) : IsDigit(ds[k])
            /\ Len(ds) > 1 => ds[1] # "0"
            /\ IsTimestampOf(ReadMillis(ds), now)
            /\ SubSeq(h, 1, n - 1) =
                  encrypt(key, ds \o <<"http://purenetworks.com/HNAP1", "/", action>>)

\* The action the header of exchange x is for.
HeaderAction(x) == IF x = "status" THEN "GetMultipleHNAPs" ELSE "Login"

\* C17: every header a call attaches is the keyed hash, under the private
\* key, of t followed by the action URL, then one space, then t, with t the
\* milliseconds of one clock reading modulo 2 * 10^12, 0 <= t < 2 * 10^12;
\* headers for the same key and action one millisecond apart are each of that
\* form and differ.
C17_HeaderConstruction ==
    /\ \A i \in Authenticated :
          IsHeaderFor(sent[i].hnap, encrypt(Challenged.PublicKey \o password, Challenged.Challenge),
                      HeaderAction(sent[i].action), sent[i].at)
    /\ \A i \in Authenticated : \A n1, n2 \in Times :
          UnixMillis(n2) = NextMillis(UnixMillis(n1)) =>
             LET key == encrypt(Challenged.PublicKey \o password, Challenged.Challenge)
                 a == HeaderAction(sent[i].action)
             IN  /\ IsHeaderFor(hnapAuth(key, a, n1), key, a, n1)
                 /\ IsHeaderFor(hnapAuth(key, a, n2), key, a, n2)
                 /\ hnapAuth(key, a, n1) # hnapAuth(key, a, n2)

\* A status query whose header was computed as the clock stood at the
\* modulus: its timestamp is 0.
C17_Witness ==
    \E i \in SentFor("status") :
        /\ sent[i].at = Time(WrapHi, 0, 7)
        /\ sent[i].hnap[Len(sent[i].hnap)] = "0"
        /\ sent[i].hnap[Len(sent[i].hnap) - 1] = " "

\* C18: the 'request' login carries no auth header; the 'login' action and
\* the status query each carry the header computed for it, from the private
\* key of the call, its own action and a clock reading of its own, and no
\* two requests carry the same header value.
C18_HeaderPerRequest ==
    /\ \A i \in SentFor("request") : sent[i].hnap = <<>>
    /\ \A i \in Authenticated :
          /\ sent[i].at \in Times
          /\ sent[i].hnap =
                hnapAuth(encrypt(Challenged.PublicKey \o password, Challenged.Challenge),
                         IF sent[i].action = "status" THEN "GetMultipleHNAPs" ELSE "Login",
                         sent[i].at)
          /\ sent[i].soap = <<"http://purenetworks.com/HNAP1", "/",
                              IF sent[i].action = "status" THEN "GetMultipleHNAPs" ELSE "Login">>
    /\ \A i, j \in 1..Len(sent) : i # j => sent[i].hnap # sent[j].hnap

\* The 'login' action and the status query of a call with headers computed
\* within the same millisecond.
C18_Witness ==
    /\ Actions(sent) = <<"request", "login", "status">>
    /\ sent[2].at = sent[3].at
    /\ sent[2].hnap # sent[3].hnap

\* Header h is signed by key: its hash is taken under that key.
SignedBy(h, key) ==
    /\ Len(h) >= Len(key) + 2
    /\ SubSeq(h, 1, Len(key) + 2) = <<"HMAC-MD5(">> \o key \o <<",">>

\* C19: the 'login' action and the status query go out with the cookies
\* uid = the cookie value of the answer to the 'request' login and
\* PrivateKey = the derived private key, held by the jar with path "/" and
\* secure, and the status query is signed by the key its PrivateKey cookie
\* holds.
C19_CookiesOnAuthenticatedRequests ==
    /\ \A i \in Authenticated :
          /\ sent[i].cookies =
                <<[Name |-> "uid", Value |-> Challenged.Cookie],
                  [Name |-> "PrivateKey",
                   Value |-> encrypt(Challenged.PublicKey \o password, Challenged.Challenge)]>>
          /\ \A k \in 1..Len(cookies) : cookies[k].Path = <<"/">> /\ cookies[k].Secure
    /\ \A i \in SentFor("status") :
          \A key \in SentCookie(sent[i], "PrivateKey") : SignedBy(sent[i].hnap, key)
    /\ \A i \in SentFor("status") : SentCookie(sent[i], "PrivateKey") # {}

\* A status query that went out with both cookies.
C19_Witness ==
    \E i \in SentFor("status") :
        /\ Len(sent[i].cookies) = 2
        /\ SentCookie(sent[i], "uid") = {<<"uid1">>}
        /\ \E key \in SentCookie(sent[i], "PrivateKey") : SignedBy(sent[i].hnap, key)

-----------------------------------------------------------------------------
(* probe *)

ProbeReturned == probePc = "done"

\* The text has the five symbols of the marker in a row.
HasSignature(t) ==
    \E i \in 1..(Len(t) - 4) :
        /\ t[i] = "<span id=\"thisModelNumberIs\">" /\ t[i + 1] = " " /\ t[i + 2] = "S33"
        /\ t[i + 3] = " " /\ t[i + 4] = "</span>"

\* C11: probe returns an instance, named S33, exactly when no read or fetch
\* failed and the bytes it examined (the file at the path, or the first
\* 1<<20 bytes of the identification page) hold the signature marker; the
\* instance is fixture-backed when a path was given and live when none was.
C11_ProbeMatchesOnTheMarker ==
    ProbeReturned =>
       /\ modem # NoModem <=>
             probeFault = "none" /\ examined # NoBytes /\ HasSignature(examined.text)
       /\ modem # NoModem =>
             /\ modem.name = "S33"
             /\ modem.fakeData # NoFakeData <=> path # ""

\* probe returned no modem for the page that names the model without the
\* spaces of the marker.
C11_Witness ==
    /\ ProbeReturned
    /\ path = "" /\ probeFault = "none" /\ modem = NoModem
    /\ examined # NoBytes
    /\ examined.text = <<"<html>", "<span id=\"thisModelNumberIs\">", "S33", "</span>", "</html>">>

-----------------------------------------------------------------------------
(* Several Status calls on one instance *)

FixtureBacked == fakeData # NoFakeData
CallDone(c) == calls[c].pc = Done

\* The tables the captured content holds: those of the object it spells,
\* none when it spells no JSON value.
Captured ==
    IF fakeData.bytes.kind \in {"object", "mistyped"}
    THEN [down |-> fakeData.bytes.down, up |-> fakeData.bytes.up]
    ELSE NoPayload

\* C12: no call of Status on a fixture-backed instance sends a request or
\* touches a cookie jar; each returns the parse of the captured content, and
\* so any two calls return the same.
C12_FixtureReplaysWithoutNetwork ==
    FixtureBacked =>
       /\ \A c \in CallIds : calls[c].sent = <<>> /\ calls[c].rx = [x \in Exchanges |-> NoResponse]
       /\ \A j \in CallIds : jars[j] = NoCookies
       /\ \A c \in CallIds : CallDone(c) =>
             calls[c].ret = [returned |-> TRUE, signal |-> parseStatus(Captured).signal,
                             err |-> parseStatus(Captured).err]
       /\ \A c, d \in CallIds : CallDone(c) /\ CallDone(d) => calls[c].ret = calls[d].ret

\* Two calls replayed a capture with a mistyped field, one of them under a
\* cancelled context, and both returned its Signal.
C12_Witness ==
    /\ FixtureBacked
    /\ fakeData.bytes.kind = "mistyped"
    /\ \A c \in CallIds : CallDone(c) /\ calls[c].ret.err = NoError
    /\ \E c, d \in CallIds : calls[c].ctxDone /\ ~calls[d].ctxDone

\* The cookies call c derived from the answer to its own 'request' login.
OwnCookies(c) ==
    <<[Name |-> "uid", Value |-> calls[c].rx["request"].body.Cookie],
      [Name |-> "PrivateKey",
       Value |-> encrypt(calls[c].rx["request"].body.PublicKey \o password,
                         calls[c].rx["request"].body.Challenge)]>>

\* The requests of call c after the first carry its own cookies and key.
UsesOwnHandshake(c) ==
    \A i \in 1..Len(calls[c].sent) :
        IF calls[c].sent[i].action = "request"
        THEN calls[c].sent[i].cookies = <<>> /\ calls[c].sent[i].key = <<>>
        ELSE /\ calls[c].rx["request"] # NoResponse
             /\ calls[c].sent[i].cookies = OwnCookies(c)
             /\ calls[c].sent[i].key = OwnCookies(c)[2].Value

Count(c, x) == Cardinality({i \in 1..Len(calls[c].sent) : calls[c].sent[i].action = x})

Outcomes(c) ==
    LET r == calls[c].rx
        failed == {[returned |-> TRUE, signal |-> NilSignal, err |-> e] :
                      e \in TransportErrors \cup {Canceled}}
        error(e) == {[returned |-> TRUE, signal |-> NilSignal, err |-> e]}
    IN  IF r["request"] = NoResponse THEN failed
        ELSE IF r["request"].body.kind # "object" THEN error(SyntaxError)
        ELSE IF r["login"] = NoResponse THEN failed
        ELSE IF ~HasMarker(r["login"].body) THEN error(LoginFailed)
        ELSE IF r["status"] = NoResponse THEN failed
        ELSE IF r["status"].body.kind = "invalid" THEN error(SyntaxError)
        ELSE IF r["status"].body.kind = "mistyped" THEN error(TypeError)
        ELSE {[returned |-> TRUE,
               signal |-> parseStatus([down |-> r["status"].body.down,
                                       up |-> r["status"].body.up]).signal,
               err |-> parseStatus([down |-> r["status"].body.down,
                                    up |-> r["status"].body.up]).err]}

\* C14: live calls running side by side share nothing they write: each has
\* a jar of its own, which holds nothing or the cookies derived from the
\* answers to that call's own handshake, whatever the other calls did in
\* between; the key and cookies on its requests are those, and what it
\* returns is decided by its own context and answers.
C14_CallsShareNothing ==
    ~FixtureBacked =>
       /\ \A c, d \in CallIds : c # d => NewJar(c) # NewJar(d)
       /\ \A c \in CallIds :
             /\ jars[NewJar(c)] # NoCookies =>
                   /\ calls[c].rx["request"] # NoResponse
                   /\ JarCookies(jars[NewJar(c)], hnapURL) = OwnCookies(c)
             /\ calls[c].cookies # NoCookies =>
                   CookieValue(calls[c].cookies, "PrivateKey") = OwnCookies(c)[2].Value
             /\ CallDone(c) => calls[c].ret \in Outcomes(c)

\* One call stands between setting its cookies and sending its 'login'
\* action while another, challenged differently, has set its own cookies
\* and gone on to its status query.
C14_Witness ==
    /\ ~FixtureBacked
    /\ \E c, d \in CallIds :
          /\ calls[c].pc = At("login", "send")
          /\ calls[d].pc = At("status", "flight")
          /\ calls[c].cookies # calls[d].cookies
          /\ jars[NewJar(c)] # jars[NewJar(d)]

-----------------------------------------------------------------------------
(* The HTML tables *)

\* The table has a row past those the switch knows.
HasExtraRow == Len(table.rows) > Len(RowOps(table.kind))

\* C20, for the HTML tables: a row past the known ones is logged and
\* skipped and does not end the process.
C20_ExtraRowIsSkipped ==
    HasExtraRow => scrape.state # "exited"

\* The numeric rows of the table at hand whose second cell is bad: no
\* number, empty, or followed by a cell in a column the ID row does not have.
BadNumericRows ==
    {r \in 1..Len(table.rows) :
        /\ r <= Len(RowOps(table.kind))
        /\ RowOps(table.kind)[r].op = "float"
        /\ table.rows[r] \in BadRows(GoodRows(table.kind)[r])}

\* C21, for the HTML tables: a bad cell in a numeric row does not make the
\* update fail; the field it would have set stays at zero, the other cell of
\* the row is stored, and the rows after it are reached.
C21_BadCellLeavesZero ==
    \A r \in BadNumericRows :
        LET o == RowOps(table.kind)[r]
            p == ParseFloat(GoodRows(table.kind)[r][1][1])
        IN  /\ scrape.state # "panicked"
            /\ scrape.row >= r =>
                  /\ scrape.stats[GoodRows(table.kind)[1][2]][o.field] = Zero
                  /\ scrape.stats[GoodRows(table.kind)[1][1]][o.field] =
                        Normalize(p.f.m * o.scale, p.f.e)

\* C22: the bytes the fixture-backed instance probe returns will replay
\* are the bytes probe matched against the marker, whatever happens to the
\* file while probe runs.
C22_ReplaysWhatMatched ==
    (ProbeReturned /\ path # "" /\ modem # NoModem) =>
        /\ modem.fakeData # NoFakeData
        /\ modem.fakeData.bytes = examined
        /\ isS33(modem.fakeData.bytes)

-----------------------------------------------------------------------------
(* The /metrics handler *)

\* The modem queries in flight: the calls whose get() is running.
InFlight == {c \in 1..Len(flight) : flight[c].fn = "running"}

\* Request r arrives in this step.
Arrives(r) == handlers[r].pc = "none" /\ handlers'[r].pc # "none"

\* Request r, arriving in this step, starts a query of its own.
StartsQuery(r) ==
    /\ Len(flight') = Len(flight) + 1
    /\ handlers'[r].c = Len(flight')
    /\ handlers'[r].c \in {c \in 1..Len(flight') : flight'[c].fn = "running"}

\* Request r, arriving in this step, starts no query and waits for call c.
Joins(r, c) == flight' = flight /\ handlers'[r].c = c /\ handlers'[r].pc = "wg.Wait"

\* Every response given is the outcome of the query of the request's call:
\* a 500 without metrics when get() returned an error, the metrics page when
\* it returned nil, and none before it returned.
AnsweredByOutcome ==
    \A r \in Requests :
        handlers[r].resp # NoResponse =>
            /\ flight[handlers[r].c].fn = "returned"
            /\ handlers[r].resp = IF flight[handlers[r].c].err
                                  THEN [code |-> 500, metrics |-> FALSE]
                                  ELSE [code |-> 200, metrics |-> TRUE]

-----------------------------------------------------------------------------
(* Fixture and live *)

\* What Status on a fixture-backed instance returns for the bytes b: the
\* parse of the tables b holds, of empty tables when b spells no JSON value.
ReplayOf(b) ==
    parseStatus(IF b.kind \in {"object", "mistyped"} THEN [down |-> b.down, up |-> b.up]
                ELSE NoPayload)

\* A live Status returned after its login succeeded and the body of the
\* status response was read whole.
LiveReturned ==
    /\ fakeData = NoFakeData
    /\ pc = Done
    /\ ret # NotReturned
    /\ rx["status"] # NoResponse
    /\ fault = NoFault

\* b decodes as the status envelope.
Decodes(b) == b.kind = "object"

\* C24: a live Status that read the bytes b as the body of its status
\* response returns what a fixture-backed Status returns for b: the same
\* Signal, or an error in both; bytes that do not decode give an error in
\* both.
C24_FixtureAndLiveAgree ==
    LiveReturned =>
        LET b == rx["status"].body
        IN  /\ \/ ret.err = NoError /\ ReplayOf(b).err = NoError /\ ret.signal = ReplayOf(b).signal
               \/ ret.err # NoError /\ ReplayOf(b).err # NoError
            /\ ~Decodes(b) => ret.err # NoError /\ ReplayOf(b).err # NoError

-----------------------------------------------------------------------------
(* The keys of the maps *)

\* The rows of a raw table that have a channel ID: a fourth field.
RowsWithId(t) ==
    {r \in 1..Len(Split(t, RowSep)) : Len(RowFields(Split(t, RowSep)[r])) >= 4}

\* Row r is the last row of the raw table t with its channel ID.
IsLastWithId(t, r) ==
    \A q \in RowsWithId(t) :
        q > r => RowFields(Split(t, RowSep)[q])[4] # RowFields(Split(t, RowSep)[r])[4]

\* C25: the keys of each map of a returned Signal are exactly the channel
\* IDs of the rows of its encoded string (no key "" for a row that is empty
\* or has fewer than four fields), and the record under a key is that of the
\* last row with that channel ID.
C25_KeysAreTheChannelIds ==
    Accepted =>
        /\ DOMAIN result.signal.Downstream = ChannelIds(payload.down)
        /\ DOMAIN result.signal.Upstream = ChannelIds(payload.up)
        /\ \A r \in RowsWithId(payload.down) :
              LET row == DownRowsOf(payload)[r]
              IN  IsLastWithId(payload.down, r) =>
                     /\ RowFields(row)[4] \in DOMAIN result.signal.Downstream
                     /\ result.signal.Downstream[RowFields(row)[4]] = DownstreamRow(row).d
        /\ \A r \in RowsWithId(payload.up) :
              LET row == UpRowsOf(payload)[r]
              IN  IsLastWithId(payload.up, r) =>
                     /\ RowFields(row)[4] \in DOMAIN result.signal.Upstream
                     /\ result.signal.Upstream[RowFields(row)[4]] = UpstreamRow(row).d

====
